---- MODULE Spec2Model ----
(***************************************************************************)
(* A model of xmlschema/namespaces.py: the tag scanner, the declaration    *)
(* loader (load_xsd_globals), the declaration builder (build_xsd_map) and  *)
(* the registry XsdGlobals (register, get_globals, iter_schemas, clear,    *)
(* copy, build).                                                           *)
(*                                                                         *)
(* A build() is one call that runs to its end: once BuildStart has fired   *)
(* only the steps of that call are enabled until it returns or raises.     *)
(***************************************************************************)
EXTENDS Integers, Sequences, FiniteSets, TLC

VARIABLES
    reg,        \* the registries: "r" and its copy "c", each an XsdGlobals
    heap,       \* the namespace schema lists (Python list objects), by identity
    built,      \* schema.built of every schema object
    keyOrder,   \* the iteration order of a set of keys in this process
    pc,         \* "idle", or the position inside the running build()
    cur,        \* the registry the last operation was called on
    st,         \* the index in Stages of the running stage
    names,      \* build_xsd_map: global_names, as iterated
    pos,        \* build_xsd_map: how many of names the pass has visited
    missing,    \* build_xsd_map: missing
    errors,     \* build_xsd_map: errors (the keys whose lookup failed)
    errors_counter, \* build_xsd_map: errors_counter
    i,          \* build_xsd_map: i, the pass number
    nkeys,      \* the number of keys when the running builder started
    elem,       \* build_xsd_map: elem, the declaration element last read
    lastVisit,  \* the factory invocations of the last builder step
    result,     \* how build() ended, when it was the last operation, and how
                \* the operation before that build() had ended
    faulty,     \* the elements for which a factory answered against the references,
                \* since the maps of the only registry were last cleared
    builds,     \* build() calls since the maps of the only registry were last cleared
    limit,      \* the bound on builds plus faulty elements of this specification
    raised,     \* the registries a build() of which raised since their maps were
                \* last cleared
    firstClean, \* namespaces and maps after the first successful build() that was
                \* the first build() since construction or clear()
    viewSeq,    \* the get_globals calls made so far
    ret,        \* what the last get_globals returned
    handed,     \* per cache key, the view handed out since the last clear()
    stale,      \* the views handed out before the last clear()
    scan        \* a call of a tag scanner: its arguments and what it has yielded

vars == <<reg, heap, built, keyOrder, pc, cur, st, names, pos, missing, errors,
          errors_counter, i, nkeys, elem, lastVisit, result, faulty,
          builds, limit, raised, firstClean, viewSeq, ret, handed, stale, scan>>

passVars == <<pc, st, names, pos, missing, errors, errors_counter, i, nkeys, elem>>

viewVars == <<viewSeq, ret, handed, stale>>

(***************************************************************************)
(* Bounds of the model.                                                    *)
(***************************************************************************)
MaxEffort == 2      \* between two clear(): the build() calls plus the elements
                    \* whose factory answers against the references
MaxViews == 3       \* get_globals calls
ViewEffort == 1     \* the effort in the runs that read views
CopyEffort == 1     \* the effort in the runs that copy the registry
ShapeEffort == 1    \* the effort in the runs with a value of another shape
MaxDocs == 2        \* the documents of a list handed to a tag scanner
RetryEffort == 3    \* the effort in the runs that call build() again and again

Last(s) == s[Len(s)]

Range(s) == {s[n] : n \in 1..Len(s)}

(***************************************************************************)
(* The tags of qnames.py and the documents the schemas are parsed from.    *)
(***************************************************************************)
XSD_SIMPLE_TYPE_TAG == "simpleType"
XSD_ATTRIBUTE_TAG == "attribute"
XSD_ATTRIBUTE_GROUP_TAG == "attributeGroup"
XSD_COMPLEX_TYPE_TAG == "complexType"
XSD_ELEMENT_TAG == "element"
XSD_GROUP_TAG == "group"
XSD_REDEFINE_TAG == "redefine"

get_qname(ns, name) == <<ns, name>>
get_namespace(q) == q[1]
local_name(q) == q[2]

\* An element of a document: its tag, its name attribute, the components it
\* refers to (map name, qualified name) and its children.
Node(tag, name, refs, children) ==
    [tag |-> tag, name |-> name, refs |-> refs, children |-> children]

El ==
    [ cT  |-> Node(XSD_COMPLEX_TYPE_TAG, "T", {<<"types", <<"b", "S">>>>}, <<>>),
      eE  |-> Node(XSD_ELEMENT_TAG, "E", {<<"types", <<"a", "T">>>>}, <<>>),
      sS  |-> Node(XSD_SIMPLE_TYPE_TAG, "S", {<<"types", <<"xs", "string">>>>}, <<>>),
      cU  |-> Node(XSD_COMPLEX_TYPE_TAG, "U", {}, <<>>),
      r1T |-> Node(XSD_COMPLEX_TYPE_TAG, "T", {}, <<>>),
      r2T |-> Node(XSD_COMPLEX_TYPE_TAG, "T", {<<"types", <<"b", "U">>>>}, <<>>),
      r2X |-> Node(XSD_COMPLEX_TYPE_TAG, "X", {<<"types", <<"b", "U">>>>}, <<>>),
      sX  |-> Node(XSD_SIMPLE_TYPE_TAG, "X", {}, <<>>),
      r1E |-> Node(XSD_ELEMENT_TAG, "E", {}, <<>>),
      sT  |-> Node(XSD_SIMPLE_TYPE_TAG, "T", {}, <<>>),
      g1  |-> Node(XSD_ATTRIBUTE_GROUP_TAG, "G1", {<<"attribute_groups", <<"a", "G2">>>>}, <<>>),
      g2  |-> Node(XSD_ATTRIBUTE_GROUP_TAG, "G2", {<<"attribute_groups", <<"a", "G1">>>>}, <<>>),
      rd1 |-> Node(XSD_REDEFINE_TAG, "", {}, <<"r1T", "r1E">>),
      rd2 |-> Node(XSD_REDEFINE_TAG, "", {}, <<"r2T", "r2X">>) ]

\* The schema objects: A and A2 are two objects parsed from the same resource.
Schemas == {"A", "A2", "B", "R1", "R2"}

Doc ==
    [ A  |-> [target_namespace |-> "a", uri |-> "ua", root |-> <<"cT", "eE">>],
      A2 |-> [target_namespace |-> "a", uri |-> "ua", root |-> <<"sT", "g1", "g2">>],
      B  |-> [target_namespace |-> "b", uri |-> "",   root |-> <<"sS", "cU">>],
      R1 |-> [target_namespace |-> "a", uri |-> "u1", root |-> <<"rd1">>],
      R2 |-> [target_namespace |-> "a", uri |-> "u2", root |-> <<"rd2", "sX">>] ]

\* validator.BUILTIN_TYPES: one built-in type, an instance without element.
BuiltinInstance == [k |-> "inst", elem |-> "None", schema |-> "None", hist |-> <<>>, local |-> FALSE]

BUILTIN_TYPES == (<<"xs", "string">> :> BuiltinInstance)

MapNames == {"types", "attributes", "attribute_groups", "groups", "elements", "base_elements"}

Regs == {"r", "c"}

EmptyMap == [q \in {} |-> 0]

\* A validator class: the registry reads its BUILTIN_TYPES.
Validator(types) == [BUILTIN_TYPES |-> types]

\* XsdGlobals.__init__
XsdGlobals(validator, live) ==
    [ live |-> live,
      validator |-> validator,
      namespaces |-> <<>>,
      resources |-> EmptyMap,
      types |-> validator.BUILTIN_TYPES,
      attributes |-> EmptyMap,
      attribute_groups |-> EmptyMap,
      groups |-> EmptyMap,
      elements |-> EmptyMap,
      base_elements |-> EmptyMap,
      cache |-> EmptyMap ]

NewRegistry(live) == XsdGlobals(Validator(BUILTIN_TYPES), live)

\* The shapes of a map entry.
Raw(e, s) == [k |-> "raw", elem |-> e, schema |-> s]
Chain(items) == [k |-> "list", items |-> items]
IsInst(v) == v.k = "inst"
IsRaw(v) == v.k = "raw"
IsList(v) == v.k = "list"

\* A value that is no component instance, no tuple and no list.
Other == [k |-> "other"]
IsOther(v) == v.k = "other"

\* XsdGlobals.iter_schemas: the namespaces in the order of the dict, the
\* schemas of one namespace in the order of its list.
RECURSIVE IterLists(_, _)
IterLists(nss, h) ==
    IF nss = <<>> THEN <<>>
    ELSE h[nss[1].lid] \o IterLists(Tail(nss), h)

iter_schemas(R, h) == IterLists(R.namespaces, h)

NsKeys(R) == {R.namespaces[n].ns : n \in 1..Len(R.namespaces)}
NsList(R, ns) == (CHOOSE n \in 1..Len(R.namespaces) : R.namespaces[n].ns = ns)
NsLid(R, ns) == R.namespaces[NsList(R, ns)].lid

\* The list objects some registry still refers to.
LiveLids(rg) == UNION {{rg[g].namespaces[n].lid : n \in 1..Len(rg[g].namespaces)} : g \in Regs}
Collect(h, rg) == [l \in (DOMAIN h \cap LiveLids(rg)) |-> h[l]]
NewLid(h) == CHOOSE l \in 1..(Cardinality(DOMAIN h) + 1) : l \notin DOMAIN h

\* No build() has ended since the last register(), clear() or copy().
NoResult ==
    [kind |-> "none", at |-> "None", stage |-> 0, pass |-> 0, deferred |-> 0,
     counter |-> 0, after |-> "none"]

(***************************************************************************)
(* XsdGlobals.register                                                     *)
(***************************************************************************)
\* The resource index after register(schema).
RegisterResources(R, s) ==
    IF Doc[s].uri # "" /\ Doc[s].uri \notin DOMAIN R.resources
    THEN R.resources @@ (Doc[s].uri :> s)
    ELSE R.resources

\* register(schema) returns at line 228: the resource is registered for
\* another schema object.
RegisterSkips(R, s) ==
    /\ Doc[s].uri # ""
    /\ Doc[s].uri \in DOMAIN R.resources
    /\ R.resources[Doc[s].uri] # s

\* RegisterList with the membership tests of lines 234-237 left out.
RegisterList_Append(L, s) == Append(L, s)

\* The schema list of the namespace after register(schema), lines 234-238.
RegisterList(L, s) ==
    IF s \in Range(L) THEN L
    ELSE IF \E n \in 1..Len(L) : Doc[s].uri = Doc[L[n]].uri THEN L
    ELSE Append(L, s)

\* register(schema), lines 224-238: the registry and the list objects after it.
register(R, h, s) ==
    LET ns == Doc[s].target_namespace
        S == [R EXCEPT !.resources = RegisterResources(R, s)]
    IN  IF RegisterSkips(R, s) THEN [R |-> R, heap |-> h]
        ELSE IF ns \notin NsKeys(R)
        THEN [R |-> [S EXCEPT !.namespaces =
                        Append(R.namespaces, [ns |-> ns, lid |-> NewLid(h)])],
              heap |-> h @@ (NewLid(h) :> <<s>>)]
        ELSE [R |-> S,
              heap |-> [h EXCEPT ![NsLid(R, ns)] = RegisterList(h[NsLid(R, ns)], s)]]

Register(g, s) ==
    /\ pc = "idle"
    /\ reg[g].live
    /\ reg' = [reg EXCEPT ![g] = register(reg[g], heap, s).R]
    /\ heap' = register(reg[g], heap, s).heap
    /\ firstClean' = IF g = "r" /\ heap' # heap THEN <<>> ELSE firstClean
    /\ result' = NoResult
    /\ lastVisit' = <<>>
    /\ cur' = g
    /\ UNCHANGED <<built, keyOrder, limit, passVars, faulty, builds, raised,
                   viewVars, scan>>

(***************************************************************************)
(* XsdGlobals.clear                                                        *)
(***************************************************************************)
\* ClearMaps with the view cache left as it is.
ClearMaps_KeepsCache(R) ==
    [R EXCEPT !.types = R.validator.BUILTIN_TYPES,
              !.attributes = EmptyMap,
              !.attribute_groups = EmptyMap,
              !.groups = EmptyMap,
              !.elements = EmptyMap,
              !.base_elements = EmptyMap]

\* The maps and the cache as lines 279-287 leave them.
ClearMaps(R) ==
    [R EXCEPT !.types = R.validator.BUILTIN_TYPES,
              !.attributes = EmptyMap,
              !.attribute_groups = EmptyMap,
              !.groups = EmptyMap,
              !.elements = EmptyMap,
              !.base_elements = EmptyMap,
              !.cache = EmptyMap]

\* ClearBuilt with the built flags left as they are.
ClearBuilt_Keeps(b, scs) == b

\* Lines 288-289: schema.built = False for the schemas of the registry.
ClearBuilt(b, scs) == [s \in Schemas |-> IF s \in Range(scs) THEN FALSE ELSE b[s]]

\* Lines 291-293.
ClearSchemas(R, remove_schemas) ==
    IF remove_schemas
    THEN [R EXCEPT !.namespaces = <<>>, !.resources = EmptyMap]
    ELSE R

Clear(g, remove_schemas) ==
    /\ pc = "idle"
    /\ reg[g].live
    /\ built' = ClearBuilt(built, iter_schemas(reg[g], heap))
    /\ reg' = [reg EXCEPT ![g] = ClearSchemas(ClearMaps(reg[g]), remove_schemas)]
    /\ heap' = Collect(heap, reg')
    /\ faulty' = IF reg["c"].live THEN faulty ELSE {}
    /\ builds' = IF reg["c"].live THEN builds ELSE 0
    /\ result' = NoResult
    /\ lastVisit' = <<>>
    /\ firstClean' = IF g = "r" /\ remove_schemas THEN <<>> ELSE firstClean
    /\ cur' = g
    /\ raised' = raised \ {g}
    /\ handed' = IF g = "r" THEN EmptyMap ELSE handed
    /\ stale' = IF g = "r" THEN stale \cup {handed[k] : k \in DOMAIN handed} ELSE stale
    /\ UNCHANGED <<keyOrder, limit, passVars, viewSeq, ret, scan>>

(***************************************************************************)
(* create_iterfind_by_tag, for one document: the children with the tag.    *)
(***************************************************************************)
iterfind_function(children, tag) == SelectSeq(children, LAMBDA e : El[e].tag = tag)

\* The query facility of a document, element.iterfind(path): the children
\* with the tag the path names, every child for the path "*".
iterfind(children, path) ==
    IF path = "*" THEN children ELSE SelectSeq(children, LAMBDA e : El[e].tag = path)

\* Lines 43-45: elements is one document, the results with the tag are
\* yielded.
IterfindOne(doc, path, tag) ==
    LET found == SelectSeq(iterfind(Doc[doc].root, IF path = "" THEN tag ELSE path),
                           LAMBDA e : El[e].tag = tag)
    IN  [n \in 1..Len(found) |-> <<found[n]>>]

\* Lines 38-41: elements is a list, _elem is yielded for every result with
\* the tag.
RECURSIVE IterfindList(_, _, _)
IterfindList(docs, path, tag) ==
    IF docs = <<>> THEN <<>>
    ELSE LET found == SelectSeq(iterfind(Doc[docs[1]].root, IF path = "" THEN tag ELSE path),
                                LAMBDA e : El[e].tag = tag)
         IN  [n \in 1..Len(found) |-> <<docs[1]>>] \o IterfindList(Tail(docs), path, tag)

\* Lines 36-45: everything the generator yields, each item as the tuple of
\* the objects it holds.
Iterfind(S) ==
    IF S.list THEN IterfindList(S.elements, S.path, S.tag)
    ELSE IterfindOne(S.elements[1], S.path, S.tag)

\* next() on the generator: it runs to its next yield or to its end.
IterfindNext ==
    /\ ~scan.done
    /\ scan' = IF Len(scan.yielded) < Len(Iterfind(scan))
               THEN [scan EXCEPT !.yielded = Append(@, Iterfind(scan)[Len(@) + 1])]
               ELSE [scan EXCEPT !.done = TRUE]
    /\ UNCHANGED <<reg, heap, built, keyOrder, passVars, cur, lastVisit, result, faulty,
                   builds, limit, raised, firstClean, viewVars>>

(***************************************************************************)
(* create_load_function: load_xsd_globals                                  *)
(***************************************************************************)
\* LoadInsert with the declaration put in front of a chain.
LoadInsert_Prepend(m, q, obj) ==
    IF q \notin DOMAIN m THEN m @@ (q :> obj)
    ELSE IF IsList(m[q]) THEN [m EXCEPT ![q] = Chain(<<obj>> \o m[q].items)]
    ELSE [m EXCEPT ![q] = Chain(<<m[q], obj>>)]

\* LoadInsert with the declaration stored in place of a single entry.
LoadInsert_Replace(m, q, obj) ==
    IF q \notin DOMAIN m THEN m @@ (q :> obj)
    ELSE IF IsList(m[q]) THEN [m EXCEPT ![q] = Chain(Append(m[q].items, obj))]
    ELSE [m EXCEPT ![q] = obj]

\* Lines 79-84 and 89-94: append to a chain, create the entry, or turn a
\* single entry (a tuple or an instance, neither has append) into a chain.
LoadInsert(m, q, obj) ==
    IF q \notin DOMAIN m THEN m @@ (q :> obj)
    ELSE IF IsList(m[q]) THEN [m EXCEPT ![q] = Chain(Append(m[q].items, obj))]
    ELSE [m EXCEPT ![q] = Chain(<<m[q], obj>>)]

\* Lines 77-84 for one schema: the declarations under the root.
RECURSIVE LoadRoot(_, _, _)
LoadRoot(m, elems, s) ==
    IF elems = <<>> THEN m
    ELSE LoadRoot(LoadInsert(m, get_qname(Doc[s].target_namespace, El[elems[1]].name),
                             Raw(elems[1], s)),
                  Tail(elems), s)

\* Lines 73-75: the declarations of one redefine block, staged.
StageBlock(children, s) ==
    [n \in 1..Len(children) |->
        [qname |-> get_qname(Doc[s].target_namespace, El[children[n]].name),
         obj |-> Raw(children[n], s)]]

\* Lines 72-75 for one schema.
RECURSIVE StageRedefines(_, _, _)
StageRedefines(blocks, s, tag) ==
    IF blocks = <<>> THEN <<>>
    ELSE StageBlock(iterfind_function(El[blocks[1]].children, tag), s)
         \o StageRedefines(Tail(blocks), s, tag)

\* Lines 67-84: the schemas that are not built, in order.
RECURSIVE LoadSchemas(_, _, _, _, _)
LoadSchemas(m, redefinitions, scs, b, tag) ==
    IF scs = <<>> THEN [map |-> m, redefinitions |-> redefinitions]
    ELSE IF b[scs[1]] THEN LoadSchemas(m, redefinitions, Tail(scs), b, tag)
    ELSE LoadSchemas(
            LoadRoot(m, iterfind_function(Doc[scs[1]].root, tag), scs[1]),
            redefinitions \o StageRedefines(
                iterfind_function(Doc[scs[1]].root, XSD_REDEFINE_TAG), scs[1], tag),
            Tail(scs), b, tag)

\* NotARedefinition with the check of line 87 left out.
NotARedefinition_Unchecked(m, qname) == FALSE

\* Line 87: the staged redefinition has no entry to redefine.
NotARedefinition(m, qname) == qname \notin DOMAIN m

\* Lines 86-94.
RECURSIVE LoadRedefinitions(_, _)
LoadRedefinitions(m, redefinitions) ==
    IF redefinitions = <<>> THEN [map |-> m, raised |-> FALSE, at |-> "None"]
    ELSE IF NotARedefinition(m, redefinitions[1].qname)
    THEN [map |-> m, raised |-> TRUE, at |-> redefinitions[1].obj.elem]
    ELSE LoadRedefinitions(LoadInsert(m, redefinitions[1].qname, redefinitions[1].obj),
                           Tail(redefinitions))

load_xsd_globals(m, scs, b, tag) ==
    LET first == LoadSchemas(m, <<>>, scs, b, tag)
    IN  LoadRedefinitions(first.map, first.redefinitions)

(***************************************************************************)
(* The factories are not part of this file. A factory is invoked with a    *)
(* declaration element, its schema and the previous instance; it answers   *)
(* a (qualified name, instance) pair or raises XMLSchemaTypeError ("type") *)
(* or XMLSchemaLookupError ("lookup"). The instance it builds is modelled  *)
(* by the elements applied to obtain it.                                   *)
(***************************************************************************)
NoInstance == [k |-> "none", hist |-> <<>>]

FactoryInstance(e, s, prev, local) ==
    [k |-> "inst", elem |-> e, schema |-> s, hist |-> Append(prev.hist, e), local |-> local]

\* What a factory that follows the references answers: the instance when
\* every referenced component is built, a lookup failure when a referenced
\* name is in no map, "not yet resolvable" otherwise.
RefsAnswer(R, e) ==
    IF \A ref \in El[e].refs : ref[2] \in DOMAIN R[ref[1]] /\ IsInst(R[ref[1]][ref[2]])
    THEN "ok"
    ELSE IF \E ref \in El[e].refs : ref[2] \notin DOMAIN R[ref[1]]
    THEN "lookup"
    ELSE "type"

\* The elements among calls whose answer is not the one the references give.
Liars(R, calls, answers) ==
    {calls[n] : n \in {k \in 1..Len(calls) : answers[k] # RefsAnswer(R, calls[k])}}

(***************************************************************************)
(* create_builder_function: build_xsd_map                                  *)
(***************************************************************************)
\* Line 137: start = int(isinstance(obj[0], XsdBase)).
ChainStart(items) == IF IsInst(items[1]) THEN 1 ELSE 0

\* Lines 139-142: how many links from position k on the loop reaches before
\* the end of the chain or a link of another tag.
RECURSIVE ChainReach(_, _, _)
ChainReach(items, k, tag) ==
    IF k > Len(items) THEN 0
    ELSE IF El[items[k].elem].tag # tag THEN 0
    ELSE 1 + ChainReach(items, k + 1, tag)

\* Lines 143-145: the instance after n more links from position k on, each
\* invocation receiving the instance of the preceding one.
RECURSIVE ChainWalk(_, _, _, _, _)
ChainWalk(items, k, n, inst, local) ==
    IF n = 0 THEN inst
    ELSE ChainWalk(items, k + 1, n - 1,
                   FactoryInstance(items[k].elem, items[k].schema, inst, local), local)

\* Line 146: obj[0] = xsd_instance.
ChainHead(items, inst) == [items EXCEPT ![1] = inst]

\* SkipInstance with the built flag of the schema not looked at.
SkipInstance_IgnoresBuilt(obj, tag, b) ==
    \/ obj.elem = "None"
    \/ El[obj.elem].tag # tag

\* Lines 122-125: an instance is skipped.
SkipInstance(obj, tag, b) ==
    \/ obj.elem = "None"
    \/ El[obj.elem].tag # tag
    \/ b[obj.schema]

\* Lines 129-132: a raw declaration is skipped.
SkipRaw(obj, tag, b) == El[obj.elem].tag # tag

\* The factory invocations the visit of an entry makes when none fails.
Invocations(obj, tag, b) ==
    IF IsInst(obj) THEN (IF SkipInstance(obj, tag, b) THEN 0 ELSE 1)
    ELSE IF IsRaw(obj) THEN (IF SkipRaw(obj, tag, b) THEN 0 ELSE 1)
    ELSE IF IsOther(obj) THEN 0
    ELSE ChainReach(obj.items, ChainStart(obj.items) + 1, tag)

\* The element of the n-th invocation of the visit.
InvokedElem(obj, n) ==
    IF IsList(obj) THEN obj.items[ChainStart(obj.items) + n].elem ELSE obj.elem

\* The value under the key when the visit has made nOk successful
\* invocations and stops there (a failure, the break of line 142, or a
\* wrong result name): a chain keeps the instance in obj[0].
Partial(obj, nOk, local) ==
    IF IsList(obj) /\ nOk > 0
    THEN Chain(ChainHead(obj.items,
             ChainWalk(obj.items, ChainStart(obj.items) + 1, nOk,
                       IF ChainStart(obj.items) = 1 THEN obj.items[1] ELSE NoInstance, local)))
    ELSE obj

\* The instance line 163 stores when all m invocations succeeded.
Resolved(obj, m, local) ==
    IF IsList(obj)
    THEN ChainWalk(obj.items, ChainStart(obj.items) + 1, m,
                   IF ChainStart(obj.items) = 1 THEN obj.items[1] ELSE NoInstance, local)
    ELSE FactoryInstance(obj.elem, obj.schema, IF IsInst(obj) THEN obj ELSE NoInstance, local)

\* Lines 158-159: the loop stopped at a link of another tag.
ChainBroken(obj, m) ==
    IsList(obj) /\ ChainStart(obj.items) + m < Len(obj.items)

\* Line 160: the name check, made on the answer of the last invocation.
WrongResultName(m, wrongAt) == wrongAt = m

\* Lines 123, 130 and 140: the element the visit read last, none for a value
\* of another shape. A chain leaves the link the loop failed at, the link
\* it broke at, or its last link.
VisitReads(obj, m, nOk) ==
    IF IsOther(obj) THEN <<>>
    ELSE IF IsList(obj)
    THEN LET start == ChainStart(obj.items)
         IN  <<obj.items[IF nOk < m THEN start + nOk + 1
                         ELSE IF start + m < Len(obj.items) THEN start + m + 1
                         ELSE start + m].elem>>
    ELSE <<obj.elem>>

\* The visit of one key (lines 120-163). The factory answers: the first nOk
\* invocations succeed, invocation wrongAt (0: none) with another qualified
\* name, and the next invocation, if the visit makes one, raises fail.
\* outcome: "skip" (continue), "stored", "wrong", "type" or "lookup", and
\* "shape" for the XMLSchemaTypeError of line 148.
VisitEntry(obj, tag, local, b, nOk, fail, wrongAt) ==
    LET m == Invocations(obj, tag, b)
        made == IF nOk < m THEN nOk + 1 ELSE m
        calls == [n \in 1..made |-> InvokedElem(obj, n)]
        answers == [n \in 1..made |->
                      IF n > nOk THEN fail ELSE IF n = wrongAt THEN "wrong" ELSE "ok"]
    IN  [ calls |-> calls,
          answers |-> answers,
          reads |-> VisitReads(obj, m, nOk),
          outcome |-> IF IsOther(obj) THEN "shape"
                      ELSE IF m = 0 THEN "skip"
                      ELSE IF nOk < m THEN fail
                      ELSE IF ChainBroken(obj, m) THEN "skip"
                      ELSE IF WrongResultName(m, wrongAt) THEN "wrong"
                      ELSE "stored",
          value |-> IF m = 0 THEN obj
                    ELSE IF nOk < m THEN Partial(obj, nOk, local)
                    ELSE IF ChainBroken(obj, m) THEN Partial(obj, m, local)
                    ELSE IF WrongResultName(m, wrongAt) THEN Partial(obj, m, local)
                    ELSE Resolved(obj, m, local) ]

\* Exhausted with the no-progress check left out.
Exhausted_Never(miss, counter) == FALSE

\* Line 155: no progress, the pass has deferred as many keys as the
\* previous one.
Exhausted(miss, counter) == Len(miss) = counter

\* ExhaustionError with the recorded lookup failures ignored.
ExhaustionError_Generic(errs, e) == [kind |-> "Parse", at |-> e]

\* Line 156: the error raised on exhaustion.
ExhaustionError(errs, e) ==
    IF errs # <<>> THEN [kind |-> "Lookup", at |-> errs[1]]
    ELSE [kind |-> "Parse", at |-> e]

(***************************************************************************)
(* XsdGlobals.build                                                        *)
(*                                                                         *)
(* The position of a running build() is a record: the registry R, the      *)
(* built flags, and the locals of the running build_xsd_map call. The      *)
(* call stops only where it invokes a factory: everything between two      *)
(* factory invocations is part of one step.                                *)
(***************************************************************************)
Stage(op, map, tag, local) == [op |-> op, map |-> map, tag |-> tag, local |-> local]

\* Lines 303-327, in order.
Stages ==
    << Stage("load", "types", XSD_SIMPLE_TYPE_TAG, FALSE),
       Stage("build", "types", XSD_SIMPLE_TYPE_TAG, FALSE),
       Stage("load", "attributes", XSD_ATTRIBUTE_TAG, FALSE),
       Stage("build", "attributes", XSD_ATTRIBUTE_TAG, FALSE),
       Stage("load", "attribute_groups", XSD_ATTRIBUTE_GROUP_TAG, FALSE),
       Stage("build", "attribute_groups", XSD_ATTRIBUTE_GROUP_TAG, FALSE),
       Stage("load", "types", XSD_COMPLEX_TYPE_TAG, FALSE),
       Stage("build", "types", XSD_COMPLEX_TYPE_TAG, FALSE),
       Stage("load", "elements", XSD_ELEMENT_TAG, FALSE),
       Stage("build", "elements", XSD_ELEMENT_TAG, FALSE),
       Stage("load", "groups", XSD_GROUP_TAG, FALSE),
       Stage("build", "groups", XSD_GROUP_TAG, FALSE),
       Stage("build", "groups", XSD_GROUP_TAG, TRUE),
       Stage("build", "types", XSD_COMPLEX_TYPE_TAG, TRUE),
       Stage("build", "elements", XSD_ELEMENT_TAG, TRUE),
       Stage("base", "base_elements", "", FALSE),
       Stage("mark", "", "", FALSE) >>

\* The keys a set holds, in the iteration order of this process.
KeysInOrder(S) == SelectSeq(keyOrder, LAMBDA q : q \in S)

Outcome(P, kind, at) ==
    [kind |-> kind, at |-> at, stage |-> P.st, pass |-> P.i,
     deferred |-> Len(P.missing), counter |-> P.errors_counter,
     after |-> P.result.after]

\* Return with the schemas marked built however build() ends.
Return_Marking(P, res) ==
    [P EXCEPT !.pc = "idle", !.st = 0, !.names = <<>>, !.pos = 0, !.missing = <<>>,
              !.errors = <<>>, !.errors_counter = 0, !.i = 0, !.nkeys = 0,
              !.elem = "unbound", !.result = res, !.built = [s \in Schemas |-> TRUE]]

\* build() returns or raises: the locals are gone.
Return(P, res) ==
    [P EXCEPT !.pc = "idle", !.st = 0, !.names = <<>>, !.pos = 0, !.missing = <<>>,
              !.errors = <<>>, !.errors_counter = 0, !.i = 0, !.nkeys = 0,
              !.elem = "unbound", !.result = res]

\* The next line of build().
NextStage(P) ==
    [P EXCEPT !.pc = "stage", !.st = P.st + 1, !.names = <<>>, !.pos = 0,
              !.missing = <<>>, !.errors = <<>>, !.errors_counter = 0, !.i = 0,
              !.nkeys = 0, !.elem = "unbound"]

\* A load_xsd_* call of lines 303-313.
LoadStage(P, h) ==
    LET S == Stages[P.st]
        res == load_xsd_globals(P.R[S.map], iter_schemas(P.R, h), P.built, S.tag)
        Q == [P EXCEPT !.R[S.map] = res.map]
    IN  IF res.raised THEN Return(Q, Outcome(Q, "NotARedefinition", res.at))
        ELSE NextStage(Q)

\* Lines 111-118: a build_xsd_* call starts its first pass.
BuilderStart(P) ==
    [P EXCEPT !.pc = "pass",
              !.names = KeysInOrder(DOMAIN P.R[Stages[P.st].map]),
              !.nkeys = Cardinality(DOMAIN P.R[Stages[P.st].map]),
              !.pos = 0, !.missing = <<>>, !.errors = <<>>,
              !.errors_counter = 0, !.i = 1, !.elem = "unbound"]

\* PassEnd with the loop left after every pass, deferred keys or not.
PassEnd_OnePass(P) == NextStage(P)

\* Lines 165-168: the pass is over.
PassEnd(P) ==
    IF P.missing = <<>> THEN NextStage(P)
    ELSE [P EXCEPT !.errors_counter = Len(P.missing), !.names = P.missing,
                   !.pos = 0, !.missing = <<>>, !.errors = <<>>, !.i = P.i + 1]

\* Lines 322-324. No document of the model declares a group with elements,
\* so the groups add nothing.
BaseElements(R) == R.elements @@ R.base_elements

BaseStage(P) == NextStage([P EXCEPT !.R.base_elements = BaseElements(P.R)])

\* MarkBuilt with no schema marked.
MarkBuilt_Nothing(b, scs) == b

\* Lines 326-327.
MarkBuilt(b, scs) == [s \in Schemas |-> IF s \in Range(scs) THEN TRUE ELSE b[s]]

MarkStage(P, h) ==
    LET Q == [P EXCEPT !.built = MarkBuilt(P.built, iter_schemas(P.R, h))]
    IN  Return(Q, Outcome(Q, "ok", "None"))

\* The entry the pass visits next and the invocations its visit makes.
Entry(P) == P.R[Stages[P.st].map][P.names[P.pos + 1]]
EntryInvocations(P) == Invocations(Entry(P), Stages[P.st].tag, P.built)

\* The visit of the next key of the pass with the factory answers given
\* (lines 119-163).
\* Defer with the error raised at the first deferral: no retry.
Defer_NoRetry(D, v) ==
    Return(D, ExhaustionError(D.errors, D.elem) @@ Outcome(D, "", ""))

\* Lines 150-156: the key is deferred, or the pass made no progress.
Defer(D, v) ==
    IF Exhausted(D.missing, D.errors_counter)
    THEN Return(D, ExhaustionError(D.errors, D.elem) @@ Outcome(D, "", ""))
    ELSE [D EXCEPT !.pos = D.pos + 1]

\* Lines 157-163 and 150-156: what follows the visit v of the key q. The
\* handler reads elem.attrib at line 151: after the TypeError of line 148
\* elem is what an earlier visit of this call left, unbound or None at worst.
AfterVisit(P, Q, q, v) ==
    IF v.outcome \in {"skip", "stored"} THEN [Q EXCEPT !.pos = P.pos + 1]
    ELSE IF v.outcome = "wrong" THEN Return(Q, Outcome(Q, "WrongName", q))
    ELSE IF v.outcome = "shape" /\ Q.elem = "unbound"
    THEN Return(Q, Outcome(Q, "UnboundLocalError", q))
    ELSE IF v.outcome = "shape" /\ Q.elem = "None"
    THEN Return(Q, Outcome(Q, "AttributeError", q))
    ELSE Defer([Q EXCEPT !.missing = Append(P.missing, q),
                         !.errors = IF v.outcome = "lookup" THEN Append(P.errors, q)
                                    ELSE P.errors], v)

Visited(P, S, q, v) ==
    AfterVisit(P, [P EXCEPT !.R[S.map][q] = v.value,
                            !.elem = IF v.reads = <<>> THEN P.elem ELSE v.reads[1]], q, v)

VisitStep(P, nOk, fail, wrongAt) ==
    Visited(P, Stages[P.st], P.names[P.pos + 1],
            VisitEntry(Entry(P), Stages[P.st].tag, Stages[P.st].local, P.built,
                       nOk, fail, wrongAt))

\* build() runs on to its next factory invocation, its return or its raise.
RECURSIVE Run(_, _)
Run(P, h) ==
    IF P.pc = "idle" THEN P
    ELSE IF P.pc = "stage"
    THEN Run(CASE Stages[P.st].op = "load" -> LoadStage(P, h)
               [] Stages[P.st].op = "build" -> BuilderStart(P)
               [] Stages[P.st].op = "base" -> BaseStage(P)
               [] Stages[P.st].op = "mark" -> MarkStage(P, h), h)
    ELSE IF P.pos = Len(P.names) THEN Run(PassEnd(P), h)
    ELSE IF EntryInvocations(P) = 0 THEN Run(VisitStep(P, 0, "type", 0), h)
    ELSE P

\* build() is called: no result yet, and how the operation before it ended
\* ("ok" when that was a build() that returned).
Called(res) == [NoResult EXCEPT !.after = res.kind]

\* The position as the variables hold it.
Position ==
    [ R |-> reg[cur], built |-> built, pc |-> pc, st |-> st, names |-> names,
      pos |-> pos, missing |-> missing, errors |-> errors,
      errors_counter |-> errors_counter, i |-> i, nkeys |-> nkeys, elem |-> elem,
      result |-> result ]

Goto(g, P) ==
    /\ reg' = [reg EXCEPT ![g] = P.R]
    /\ built' = P.built
    /\ pc' = P.pc
    /\ st' = P.st
    /\ names' = P.names
    /\ pos' = P.pos
    /\ missing' = P.missing
    /\ errors' = P.errors
    /\ errors_counter' = P.errors_counter
    /\ i' = P.i
    /\ nkeys' = P.nkeys
    /\ elem' = P.elem
    /\ result' = P.result

Snapshot(R, h) ==
    [ schemas |-> iter_schemas(R, h),
      types |-> R.types, attributes |-> R.attributes,
      attribute_groups |-> R.attribute_groups, groups |-> R.groups,
      elements |-> R.elements, base_elements |-> R.base_elements ]

\* What the first successful build() that followed construction or clear()
\* left, kept while the same schemas stay registered, and whether such a
\* build() has returned again.
Remember(g, P, h) ==
    /\ firstClean' = IF /\ P.pc = "idle" /\ P.result.kind = "ok"
                        /\ g = "r" /\ builds' = 1 /\ faulty' = {}
                     THEN IF firstClean = <<>>
                          THEN <<[snapshot |-> Snapshot(P.R, h), again |-> FALSE]>>
                          ELSE <<[firstClean[1] EXCEPT !.again = TRUE]>>
                     ELSE firstClean
    /\ raised' = IF P.pc = "idle" /\ P.result.kind # "ok" THEN raised \cup {g}
                 ELSE raised

\* build() has run to the position P.
Land(g, P, h) == Goto(g, P) /\ Remember(g, P, h)

\* Line 300: build() is called.
Build(g) ==
    /\ pc = "idle"
    /\ reg[g].live
    /\ builds + Cardinality(faulty) < limit
    /\ cur' = g
    /\ builds' = builds + 1
    /\ lastVisit' = <<>>
    /\ UNCHANGED <<heap, keyOrder, limit, faulty, viewVars, scan>>
    /\ Land(g, Run([Position EXCEPT !.R = reg[g], !.pc = "stage", !.st = 1,
                                     !.result = Called(result)], heap),
            heap)

\* The factory invocations build() waits on.
Pending == IF pc = "pass" THEN EntryInvocations(Position) ELSE 0

\* The factory answers the invocations of the visit build() stopped at.
Visit(nOk, fail, wrongAt) ==
    /\ pc = "pass"
    /\ LET S == Stages[st]
           m == Pending
           v == VisitEntry(Entry(Position), S.tag, S.local, built, nOk, fail, wrongAt)
       IN  /\ nOk \in 0..m
           /\ wrongAt \in 0..nOk
           /\ (nOk = m) => (fail = "type")
           /\ faulty' = faulty \cup Liars(reg[cur], v.calls, v.answers)
           /\ builds + Cardinality(faulty') <= limit
           /\ lastVisit' = <<[key |-> names[pos + 1], stage |-> st, pass |-> i,
                               calls |-> v.calls, answers |-> v.answers,
                               before |-> Entry(Position), outcome |-> v.outcome]>>
           /\ UNCHANGED <<heap, keyOrder, limit, cur, builds, viewVars, scan>>
           /\ Land(cur, Run(VisitStep(Position, nOk, fail, wrongAt), heap), heap)

(***************************************************************************)
(* XsdGlobals.get_globals                                                  *)
(***************************************************************************)
\* View with the entries of every namespace.
View_Unfiltered(m, namespace, fqn_keys) ==
    IF fqn_keys THEN m
    ELSE [n \in {local_name(k) : k \in DOMAIN m} |->
             m[CHOOSE k \in DOMAIN m : local_name(k) = n]]

\* Lines 254-265: the entries of the map in the namespace, by qualified or
\* by local name.
View(m, namespace, fqn_keys) ==
    LET ks == {k \in DOMAIN m : namespace = get_namespace(k)}
    IN  IF fqn_keys THEN [k \in ks |-> m[k]]
        ELSE [n \in {local_name(k) : k \in ks} |->
                 m[CHOOSE k \in ks : local_name(k) = n]]

\* A view is a dict object: the call that created it names it.
GetGlobals(g, map_name, namespace, fqn_keys) ==
    /\ pc = "idle"
    /\ reg[g].live
    /\ viewSeq < MaxViews
    /\ viewSeq' = viewSeq + 1
    /\ LET key == <<map_name, namespace, fqn_keys>>
           hit == key \in DOMAIN reg[g].cache
           view == IF hit THEN reg[g].cache[key]
                   ELSE [id |-> viewSeq + 1,
                         items |-> View(reg[g][map_name], namespace, fqn_keys)]
       IN  /\ reg' = IF hit THEN reg
                     ELSE [reg EXCEPT ![g].cache = reg[g].cache @@ (key :> view)]
           /\ ret' = <<[call |-> viewSeq + 1, key |-> key, view |-> view]>>
           /\ handed' = [k \in DOMAIN handed \cup {key} |->
                            IF k = key THEN view.id ELSE handed[k]]
    /\ cur' = g
    /\ UNCHANGED <<heap, built, keyOrder, passVars, lastVisit, result, faulty, builds,
                   limit, raised, firstClean, stale, scan>>

(***************************************************************************)
(* XsdGlobals.copy                                                         *)
(***************************************************************************)
\* Lines 207-216: a new registry whose dicts are updated from those of R. The
\* values are not copied: a namespace maps to the same list object, a key to
\* the same entry. The view cache starts empty.
CopyOf(R) == [R EXCEPT !.live = TRUE, !.cache = EmptyMap]

\* No map of R holds a chain.
NoChain(R) == \A m \in MapNames : \A q \in DOMAIN R[m] : ~IsList(R[m][q])

\* The runs of the model copy a registry whose maps hold no chain, so that
\* the only objects the two registries share are the namespace lists, the
\* schemas and immutable entries.
Copy ==
    /\ pc = "idle"
    /\ reg["r"].live
    /\ ~reg["c"].live
    /\ NoChain(reg["r"])
    /\ reg' = [reg EXCEPT !["c"] = CopyOf(reg["r"])]
    /\ cur' = "c"
    /\ result' = NoResult
    /\ lastVisit' = <<>>
    /\ raised' = IF "r" \in raised THEN raised \cup {"c"} ELSE raised
    /\ UNCHANGED <<heap, built, keyOrder, passVars, faulty, builds, limit, firstClean,
                   viewVars, scan>>

(***************************************************************************)
(* The specification.                                                      *)
(***************************************************************************)
AllKeys ==
    << <<"xs", "string">>, <<"a", "T">>, <<"a", "X">>, <<"xs", "odd">>, <<"b", "S">>,
       <<"b", "U">>,
       <<"a", "G1">>, <<"a", "G2">>, <<"a", "E">> >>

Reverse(s) == [n \in 1..Len(s) |-> s[Len(s) + 1 - n]]

\* The iteration orders of a set of keys the model draws from.
Orders == {AllKeys, Reverse(AllKeys)}

\* Two registries are constructed for a validator; copy() has not been
\* called.
Construct(effort, validator) ==
    /\ reg = [g \in Regs |-> XsdGlobals(validator, g = "r")]
    /\ heap = EmptyMap
    /\ built = [s \in Schemas |-> FALSE]
    /\ keyOrder \in Orders
    /\ pc = "idle"
    /\ cur = "r"
    /\ st = 0
    /\ names = <<>>
    /\ pos = 0
    /\ missing = <<>>
    /\ errors = <<>>
    /\ errors_counter = 0
    /\ i = 0
    /\ nkeys = 0
    /\ elem = "unbound"
    /\ lastVisit = <<>>
    /\ result = NoResult
    /\ faulty = {}
    /\ builds = 0
    /\ limit = effort
    /\ raised = {}
    /\ firstClean = <<>>
    /\ viewSeq = 0
    /\ ret = <<>>
    /\ handed = EmptyMap
    /\ stale = {}

\* No tag scanner has been called from outside the loader.
NoScan == [elements |-> <<>>, list |-> FALSE, tag |-> "", path |-> "", yielded |-> <<>>,
           done |-> TRUE]

Start(effort) == Construct(effort, Validator(BUILTIN_TYPES)) /\ scan = NoScan

Init == Start(MaxEffort)

Next ==
    \/ \E s \in Schemas : Register("r", s)
    \/ \E remove_schemas \in BOOLEAN : Clear("r", remove_schemas)
    \/ Build("r")
    \/ \E nOk \in 0..Pending : \E fail \in {"type", "lookup"}, wrongAt \in 0..nOk :
          Visit(nOk, fail, wrongAt)

Spec == Init /\ [][Next]_vars

\* The runs that read namespace views.
ViewSchemas == {"A", "B"}
ViewMaps == {"types", "elements"}

InitView == Start(ViewEffort)

NextView ==
    \/ \E s \in ViewSchemas : Register("r", s)
    \/ \E remove_schemas \in BOOLEAN : Clear("r", remove_schemas)
    \/ Build("r")
    \/ \E nOk \in 0..Pending : \E fail \in {"type", "lookup"}, wrongAt \in 0..nOk :
          Visit(nOk, fail, wrongAt)
    \/ \E map_name \in ViewMaps, fqn_keys \in BOOLEAN :
          GetGlobals("r", map_name, "a", fqn_keys)

SpecView == InitView /\ [][NextView]_vars

\* The runs that copy the registry and go on with both.
CopySchemas == {"A", "R1"}

InitCopy == Start(CopyEffort)

NextCopy ==
    \/ \E g \in Regs, s \in CopySchemas : Register(g, s)
    \/ \E g \in Regs, remove_schemas \in BOOLEAN : Clear(g, remove_schemas)
    \/ \E g \in Regs : Build(g)
    \/ \E nOk \in 0..Pending : \E fail \in {"type", "lookup"}, wrongAt \in 0..nOk :
          Visit(nOk, fail, wrongAt)
    \/ Copy

SpecCopy == InitCopy /\ [][NextCopy]_vars

\* The runs with a validator one of whose BUILTIN_TYPES is no component
\* instance.
OddKey == <<"xs", "odd">>
OddBuiltins == BUILTIN_TYPES @@ (OddKey :> Other)
ShapeSchemas == {"A", "B", "R2"}

InitShape == Construct(ShapeEffort, Validator(OddBuiltins)) /\ scan = NoScan

NextShape ==
    \/ \E s \in ShapeSchemas : Register("r", s)
    \/ \E remove_schemas \in BOOLEAN : Clear("r", remove_schemas)
    \/ Build("r")
    \/ \E nOk \in 0..Pending : \E fail \in {"type", "lookup"}, wrongAt \in 0..nOk :
          Visit(nOk, fail, wrongAt)

SpecShape == InitShape /\ [][NextShape]_vars

\* The runs that call build() up to three times between two clear().
RetrySchemas == {"A", "R2", "B"}

InitRetry == Start(RetryEffort)

NextRetry ==
    \/ \E s \in RetrySchemas : Register("r", s)
    \/ \E remove_schemas \in BOOLEAN : Clear("r", remove_schemas)
    \/ Build("r")
    \/ \E nOk \in 0..Pending : \E fail \in {"type", "lookup"}, wrongAt \in 0..nOk :
          Visit(nOk, fail, wrongAt)

SpecRetry == InitRetry /\ [][NextRetry]_vars

\* The runs that call a tag scanner: on one document or on a list of
\* documents, with the default path or with the path "*".
ScanTags ==
    {XSD_SIMPLE_TYPE_TAG, XSD_COMPLEX_TYPE_TAG, XSD_ELEMENT_TAG, XSD_ATTRIBUTE_GROUP_TAG,
     XSD_REDEFINE_TAG}

DocLists == UNION {[1..n -> Schemas] : n \in 0..MaxDocs}

InitScan ==
    /\ Construct(0, Validator(BUILTIN_TYPES))
    /\ \E list \in BOOLEAN, tag \in ScanTags, path \in {"", "*"} :
          \E elements \in (IF list THEN DocLists ELSE [1..1 -> Schemas]) :
              scan = [elements |-> elements, list |-> list, tag |-> tag, path |-> path,
                      yielded |-> <<>>, done |-> FALSE]

NextScan == IterfindNext

SpecScan == InitScan /\ [][NextScan]_vars

(***************************************************************************)
(* The properties.                                                         *)
(***************************************************************************)
\* build() has just returned without raising.
Returned == pc = "idle" /\ result.kind = "ok"

\* build() has just raised.
Raised == pc = "idle" /\ result.kind \notin {"ok", "none"}

ComponentMaps == {"types", "attributes", "attribute_groups", "groups", "elements"}

\* Every value of the five component maps of R is a built instance.
AllInstances(R) == \A m \in ComponentMaps : \A q \in DOMAIN R[m] : IsInst(R[m][q])

\* C1 as the specification states it: after any build() that returns without
\* raising, every value of the types, attributes, attribute_groups, groups
\* and elements maps is a built instance.
C1_AnyBuildLeavesInstances == Returned => AllInstances(reg[cur])

\* C1, amended: after a build() that returns without raising, when no build()
\* of the registry has raised since its maps were last cleared, every value
\* of the five component maps is a built instance, no raw declaration and no
\* chain.
C1_BuildLeavesInstances == (Returned /\ cur \notin raised) => AllInstances(reg[cur])

\* A build() with no raise before it returned and resolved a chain.
C1_Witness ==
    /\ Returned
    /\ cur \notin raised
    /\ \E q \in DOMAIN reg[cur].types : Len(reg[cur].types[q].hist) >= 2

\* C2: the builder terminates whatever the factories answer. A pass after
\* the first works on exactly the keys the previous pass deferred and has
\* deferred strictly fewer of them wherever it is still running (it raises
\* when it defers as many), so pass i runs only while at most n - (i - 2)
\* keys are left of the n keys of the map, and never more than n + 1 passes
\* run; two attribute groups that reference each other make build() raise
\* the exhaustion error when the factories follow the references.
C2_PassesBounded ==
    /\ pc = "pass" =>
          /\ i >= 1
          /\ i <= nkeys + 1
          /\ Len(names) <= nkeys
          /\ i >= 2 =>
                /\ Len(names) = errors_counter
                /\ errors_counter >= 1
                /\ errors_counter <= nkeys - (i - 2)
                /\ Len(missing) < errors_counter
    /\ (/\ pc = "idle" /\ result.kind # "none" /\ faulty = {}
        /\ "A2" \in Range(iter_schemas(reg[cur], heap))
        /\ ~built["A2"])
       => (result.kind = "Parse" /\ Stages[result.stage].map = "attribute_groups"
           /\ result.pass = 2 /\ result.deferred = result.counter)

\* The two attribute groups of A2 were deferred in the first pass and the
\* second pass raised on deferring both again.
C2_Witness ==
    /\ Raised
    /\ faulty = {}
    /\ result.kind = "Parse"
    /\ result.pass = 2
    /\ result.counter = 2
    /\ Stages[result.stage].map = "attribute_groups"

\* The elements a sequence holds more than once.
Repeated(s) == {s[n] : n \in {k \in 1..Len(s) : \E j \in 1..(k - 1) : s[j] = s[k]}}

\* The instance of a map entry, if it holds one: the entry, or the head of
\* its chain.
HeadOf(v) == IF IsList(v) THEN v.items[1] ELSE v

\* C3: in the first build() since the maps were cleared, where every declaration is
\* loaded once, and with factories that follow the references, the factory
\* is applied to each link of a chain exactly once, also when a link is
\* deferred and the key is retried: no instance of the types map built by
\* the global builders has the same element applied twice.
C3_EachLinkOnce ==
    (builds = 1 /\ faulty = {}) =>
        \A q \in DOMAIN reg[cur].types :
            LET v == HeadOf(reg[cur].types[q])
            IN  (IsInst(v) /\ ~v.local) => Repeated(v.hist) = {}

\* The declarations redefine blocks hold.
Redefinitions == UNION {Range(El[e].children) : e \in DOMAIN El}

\* The map the declarations with the tag are loaded into.
MapOf(tag) ==
    CASE tag \in {XSD_SIMPLE_TYPE_TAG, XSD_COMPLEX_TYPE_TAG} -> "types"
      [] tag = XSD_ATTRIBUTE_TAG -> "attributes"
      [] tag = XSD_ATTRIBUTE_GROUP_TAG -> "attribute_groups"
      [] tag = XSD_GROUP_TAG -> "groups"
      [] tag = XSD_ELEMENT_TAG -> "elements"

\* The qualified name a redefine block of schema s declares e under.
QNameIn(s, e) == get_qname(Doc[s].target_namespace, El[e].name)

\* Redefine blocks of s hold e.
RedefinedIn(s, e) ==
    \E n \in 1..Len(Doc[s].root) :
        El[Doc[s].root[n]].tag = XSD_REDEFINE_TAG /\ e \in Range(El[Doc[s].root[n]].children)

\* C4: a declaration of a redefine block whose qualified name is no key of
\* the map when the schemas have been scanned makes the loader raise "not a
\* redefinition!": the error names such a declaration and its name is still
\* no key of the map; no entry of a map starts with a declaration of a
\* redefine block, and no factory was invoked for one with no previous
\* instance; and a build() that returns has found an entry for every
\* declaration of the redefine blocks of the registered schemas.
C4_OrphanRedefinitionRaises ==
    /\ (pc = "idle" /\ result.kind = "NotARedefinition") =>
          /\ result.at \in Redefinitions
          /\ Stages[result.stage].op = "load"
          /\ El[result.at].tag = Stages[result.stage].tag
          /\ \E s \in Range(iter_schemas(reg[cur], heap)) :
                /\ RedefinedIn(s, result.at)
                /\ QNameIn(s, result.at) \notin DOMAIN reg[cur][Stages[result.stage].map]
    /\ \A g \in Regs, m \in ComponentMaps : \A q \in DOMAIN reg[g][m] :
          LET v == HeadOf(reg[g][m][q])
          IN  /\ IsRaw(v) => v.elem \notin Redefinitions
              /\ (IsInst(v) /\ v.hist # <<>>) => v.hist[1] \notin Redefinitions
    /\ Returned =>
          \A s \in Range(iter_schemas(reg[cur], heap)) : \A e \in Redefinitions :
              RedefinedIn(s, e) => QNameIn(s, e) \in DOMAIN reg[cur][MapOf(El[e].tag)]

\* build() raised "not a redefinition!" for the redefinition of element E,
\* which no registered schema declares.
C4_Witness ==
    /\ pc = "idle"
    /\ result.kind = "NotARedefinition"
    /\ result.at = "r1E"
    /\ <<"a", "E">> \notin DOMAIN reg[cur].elements

\* What is observable through registry g: its namespaces with their schema
\* lists, its resource index, its six maps, and the built flags of its
\* schemas.
Observable(g) ==
    [ namespaces |-> [n \in 1..Len(reg[g].namespaces) |->
                        [ns |-> reg[g].namespaces[n].ns,
                         schemas |-> heap[reg[g].namespaces[n].lid]]],
      resources |-> reg[g].resources,
      maps |-> [m \in MapNames |-> reg[g][m]],
      built |-> [s \in Range(iter_schemas(reg[g], heap)) |-> built[s]] ]

\* C5: once c = r.copy() exists, an operation on c changes nothing
\* observable through r, and an operation on r changes nothing observable
\* through c.
C5_CopyIsIndependent ==
    [][reg["c"].live =>
          /\ cur' = "c" => Observable("r")' = Observable("r")
          /\ cur' = "r" => Observable("c")' = Observable("c")]_vars

C7_BuiltOnlyAtTheEnd ==
    [][/\ \A s \in Schemas :
            (~built[s] /\ built'[s]) =>
                /\ pc' = "idle"
                /\ result'.kind = "ok"
                /\ s \in Range(iter_schemas(reg'[cur'], heap'))
       /\ (/\ pc # "idle" \/ builds' = builds + 1
           /\ pc' = "idle"
           /\ result'.kind \notin {"ok", "none"}) =>
            /\ built' = built
            /\ \A m \in MapNames : \A q \in DOMAIN reg[cur'][m] :
                  /\ q \in DOMAIN reg'[cur'][m]
                  /\ IsInst(HeadOf(reg[cur'][m][q])) => IsInst(HeadOf(reg'[cur'][m][q]))]_vars

\* build() raised in a builder after it resolved a component: the component
\* is in the map and no registered schema is built.
C7_Witness ==
    /\ Raised
    /\ Stages[result.stage].op = "build"
    /\ result.stage >= 8
    /\ \E q \in DOMAIN reg[cur].types : reg[cur].types[q] # BuiltinInstance /\ IsInst(reg[cur].types[q])
    /\ iter_schemas(reg[cur], heap) # <<>>
    /\ \A s \in Range(iter_schemas(reg[cur], heap)) : ~built[s]

\* The declarations under the root of schema s, redefine blocks apart.
RootDeclarations(s) == {e \in Range(Doc[s].root) : El[e].tag # XSD_REDEFINE_TAG}

\* The (map, qualified name) pairs the schemas of S declare, and the built-in
\* types.
Declared(S) ==
    {<<"types", q>> : q \in DOMAIN BUILTIN_TYPES}
    \cup UNION {{<<MapOf(El[e].tag), QNameIn(s, e)>> : e \in RootDeclarations(s)} : s \in S}

\* Every reference of a declaration of the schemas of S, and every
\* redefinition, targets a component some schema of S declares.
Closed(S) ==
    \A s \in S :
        /\ \A e \in RootDeclarations(s) : El[e].refs \subseteq Declared(S)
        /\ \A e \in Redefinitions : RedefinedIn(s, e) =>
              /\ El[e].refs \subseteq Declared(S)
              /\ <<MapOf(El[e].tag), QNameIn(s, e)>> \in Declared(S)

\* The references between components of one kind the schemas of S make.
SameKindRefs(S) ==
    UNION {{<<<<MapOf(El[e].tag), QNameIn(s, e)>>, ref>> :
               ref \in {r \in El[e].refs : r[1] = MapOf(El[e].tag)}} :
           <<s, e>> \in {x \in S \X DOMAIN El :
                            x[2] \in RootDeclarations(x[1]) \/ RedefinedIn(x[1], x[2])}}

\* The components reachable from x by n or fewer references of D.
RECURSIVE Reach(_, _, _)
Reach(D, x, n) ==
    IF n = 0 THEN {x}
    ELSE LET near == Reach(D, x, n - 1)
         IN  near \cup {d[2] : d \in {e \in D : e[1] \in near}}

Acyclic(S) ==
    \A d \in SameKindRefs(S) : d[1] \notin Reach(SameKindRefs(S), d[2], Cardinality(SameKindRefs(S)))

SameResource(R, h, s) ==
    \E x \in Range(iter_schemas(R, h)) :
        x = s \/ (Doc[s].uri # "" /\ Doc[x].uri = Doc[s].uri)

\* C9: register(s) with s of the resource identity of an already registered
\* schema changes neither the resource index nor a namespace list.
C9_RegisterTwiceIsNoOp ==
    \A g \in Regs : \A s \in Schemas :
        (reg[g].live /\ SameResource(reg[g], heap, s)) =>
            register(reg[g], heap, s) = [R |-> reg[g], heap |-> heap]

\* A is registered, another schema of its namespace after it: registering A
\* again, or A2, which has the URI of A, is the case of the claim.
C9_Witness ==
    /\ Len(reg["r"].namespaces) >= 1
    /\ Len(heap[reg["r"].namespaces[1].lid]) >= 2
    /\ heap[reg["r"].namespaces[1].lid][1] = "A"
    /\ SameResource(reg["r"], heap, "A")
    /\ SameResource(reg["r"], heap, "A2")
    /\ "A2" \notin Range(iter_schemas(reg["r"], heap))

\* C10: get_globals returns the view it returned for the same key since the
\* last clear(), whatever register() and build() did in between, and a view
\* that was never returned before when it is the first call for the key
\* since clear() or construction.
C10_ViewsCachedUntilClear ==
    [][ret' # ret =>
          LET key == ret'[1].key
          IN  IF key \in DOMAIN handed
              THEN ret'[1].view.id = handed[key]
              ELSE ret'[1].view.id \notin stale \cup {handed[k] : k \in DOMAIN handed}]_vars

\* After a clear() and a build(), get_globals returned a cached view again.
C10_Witness ==
    /\ ret # <<>>
    /\ ret[1].view.id < ret[1].call
    /\ stale # {}
    /\ Returned

\* C11: a map entry that is no raw declaration, no chain and no component
\* instance makes the builder raise when it visits the entry: the key is
\* never among the deferred keys, no pass after the first works on it, and
\* a build() of a registry whose types hold such an entry ends in the first
\* pass of the first builder.
C11_UnexpectedShapeIsTerminal ==
    /\ pc = "pass" =>
          \A q \in Range(missing) \cup (IF i > 1 THEN Range(names) ELSE {}) :
              ~IsOther(reg[cur][Stages[st].map][q])
    /\ (pc = "idle" /\ result.kind # "none" /\ OddKey \in DOMAIN reg[cur].types) =>
          (result.kind # "ok" /\ result.stage = 2 /\ result.pass = 1)

\* The results of the query on a document whose tag is the target tag.
Matches(doc, path, tag) ==
    SelectSeq(iterfind(Doc[doc].root, IF path = "" THEN tag ELSE path),
              LAMBDA e : El[e].tag = tag)

\* The matching elements of the documents, each with its document, in
\* document order and then query order.
RECURSIVE MatchesWithDocument(_, _, _)
MatchesWithDocument(docs, path, tag) ==
    IF docs = <<>> THEN <<>>
    ELSE [n \in 1..Len(Matches(docs[1], path, tag)) |->
             <<Matches(docs[1], path, tag)[n], docs[1]>>]
         \o MatchesWithDocument(Tail(docs), path, tag)

\* C12: given a list of documents the tag scanner yields every matching
\* element together with its document, in document order and then query
\* order; given one document it yields the matching elements in query order.
C12_ScannerYieldsMatches ==
    LET expected == IF scan.list
                    THEN MatchesWithDocument(scan.elements, scan.path, scan.tag)
                    ELSE [n \in 1..Len(Matches(scan.elements[1], scan.path, scan.tag)) |->
                             <<Matches(scan.elements[1], scan.path, scan.tag)[n]>>]
    IN  /\ Len(scan.yielded) <= Len(expected)
        /\ \A n \in 1..Len(scan.yielded) : scan.yielded[n] = expected[n]
        /\ scan.done => Len(scan.yielded) = Len(expected)

\* C13: whenever one of the factory invocations of the visit of a key, the
\* only one or any link of a chain, answers with another qualified name,
\* build() raises "wrong result name" for the key and the entry under the
\* key is what it was before the visit.
C13_WrongNameAlwaysRaises ==
    (lastVisit # <<>> /\ "wrong" \in Range(lastVisit[1].answers)) =>
        /\ pc = "idle"
        /\ result.kind = "WrongName"
        /\ result.at = lastVisit[1].key
        /\ reg[cur][Stages[lastVisit[1].stage].map][lastVisit[1].key] = lastVisit[1].before

\* A step of a running build(): the call itself with everything up to its
\* first factory invocation, or the answers to a visit with everything up
\* to the next.
BuildStep == pc # "idle" \/ builds' = builds + 1

\* C14 as the specification states it: once a key holds a resolved
\* component instance, no loader or builder step makes it hold a raw
\* declaration or a chain again.
C14_ResolvedStaysResolved ==
    [][BuildStep =>
          \A m \in MapNames : \A q \in DOMAIN reg[cur'][m] :
              IsInst(reg[cur'][m][q]) =>
                  (q \in DOMAIN reg'[cur'][m] /\ IsInst(reg'[cur'][m][q]))]_vars

\* C14, amended: once a key holds a resolved instance, alone or as the head
\* of a chain, every loader and builder step leaves it a resolved instance
\* or a chain whose head is a resolved instance: the loader may append
\* declarations behind the instance, it never puts a raw declaration or a
\* chain with an unresolved head under the key.
C14_ResolvedHeadStays ==
    [][BuildStep =>
          \A m \in MapNames : \A q \in DOMAIN reg[cur'][m] :
              IsInst(HeadOf(reg[cur'][m][q])) =>
                  (q \in DOMAIN reg'[cur'][m] /\ IsInst(HeadOf(reg'[cur'][m][q])))]_vars

\* The simple type a:X was resolved in the simple type stage and the loader
\* of the complex types has appended the redefinition r2X behind it.
C14_Witness ==
    /\ pc = "pass"
    /\ st = 8
    /\ <<"a", "X">> \in DOMAIN reg[cur].types
    /\ IsList(reg[cur].types[<<"a", "X">>])
    /\ reg[cur].types[<<"a", "X">>].items[1] = FactoryInstance("sX", "R2", NoInstance, FALSE)
    /\ reg[cur].types[<<"a", "X">>].items[2] = Raw("r2X", "R2")

\* The place of a registered schema in the order of iter_schemas: schemas
\* of one namespace are there in the order of their registration.
SchemaIndex(R, h, s) ==
    CHOOSE n \in 1..Len(iter_schemas(R, h)) : iter_schemas(R, h)[n] = s

\* A link of a chain is a declaration found under the root of its schema.
IsRootLink(v) == IsRaw(v) /\ v.elem \in RootDeclarations(v.schema)

\* A link of a chain comes from a redefine block of its schema.
IsRedefineLink(v) == IsRaw(v) /\ RedefinedIn(v.schema, v.elem)

\* In every chain of R the declarations from under a root precede those from
\* redefine blocks, and the latter are in the order of their schemas.
ChainsOrdered(R, h) ==
    \A m \in ComponentMaps : \A q \in DOMAIN R[m] :
        IsList(R[m][q]) =>
            LET items == R[m][q].items
            IN  \A j, k \in 1..Len(items) :
                    (j < k /\ IsRedefineLink(items[j])) =>
                        /\ ~IsRootLink(items[k])
                        /\ IsRedefineLink(items[k]) =>
                              SchemaIndex(R, h, items[j].schema)
                                  <= SchemaIndex(R, h, items[k].schema)

\* C15 as the specification states it: after any run of a loader, in every
\* chain the declarations from under a schema root precede those from
\* redefine blocks and the redefinitions are in registration order.
C15_AnyLoadOrdersChains == ChainsOrdered(reg[cur], heap)

\* C15, amended: the chains are so ordered as long as no build() of the
\* registry has raised since its maps were last cleared.
C15_LoadOrdersChains == cur \notin raised => ChainsOrdered(reg[cur], heap)

\* R1 was registered before A, which holds the original of a:T, and B, of
\* another namespace, before R2: the chain of a:T is the original, then the
\* redefinition of R1, then that of R2.
C15_Witness ==
    /\ cur \notin raised
    /\ pc = "pass"
    /\ st = 8
    /\ iter_schemas(reg[cur], heap) = <<"R1", "A", "R2", "B">>
    /\ reg[cur].types[<<"a", "T">>] =
          Chain(<<Raw("cT", "A"), Raw("r1T", "R1"), Raw("r2T", "R2")>>)

\* C16: in a step of a running builder, with the keys deferred and the
\* lookup failures recorded in the pass up to and including the visit of
\* this step: the exhaustion error is raised exactly when the visit defers
\* its key and the pass has then deferred as many keys as the previous pass
\* did, never in the first pass; the error is the first lookup failure
\* recorded in the pass or, when there is none, a parse error with the
\* element the visit failed on; and a pass that ends with fewer deferred
\* keys raises nothing and is followed by a pass on exactly those keys.
C16_ExhaustionExactly ==
    [][(pc = "pass" /\ lastVisit' # <<>>) =>
          LET v == lastVisit'[1]
              failed == v.outcome \in {"type", "lookup"}
              deferredNow == IF failed THEN Append(missing, v.key) ELSE missing
              errorsNow == IF v.outcome = "lookup" THEN Append(errors, v.key) ELSE errors
              exhaustion == pc' = "idle" /\ result'.kind \in {"Lookup", "Parse"}
          IN  /\ exhaustion <=> (failed /\ Len(deferredNow) = errors_counter)
              /\ exhaustion =>
                    /\ i >= 2
                    /\ result'.pass = i
                    /\ IF errorsNow # <<>>
                       THEN result'.kind = "Lookup" /\ result'.at = errorsNow[1]
                       ELSE result'.kind = "Parse" /\ result'.at = Last(v.calls)
              /\ (pc' = "pass" /\ st' = st /\ i' # i) =>
                    /\ i' = i + 1
                    /\ deferredNow # <<>>
                    /\ i >= 2 => Len(deferredNow) < errors_counter
                    /\ names' = deferredNow
                    /\ errors_counter' = Len(deferredNow)
                    /\ missing' = <<>>
                    /\ errors' = <<>>
              /\ (/\ \A n \in (pos + 2)..Len(names) :
                        Invocations(reg[cur][Stages[st].map][names[n]], Stages[st].tag,
                                    built) = 0
                  /\ deferredNow # <<>>
                  /\ v.outcome # "wrong"
                  /\ Len(deferredNow) # errors_counter) =>
                    (pc' = "pass" /\ st' = st /\ i' = i + 1)]_vars

\* The second pass deferred both keys of the first: the last visit failed as
\* not yet resolvable, the error raised is the lookup failure recorded for
\* the other key.
C16_Witness ==
    /\ Raised
    /\ result.kind = "Lookup"
    /\ result.pass = 2
    /\ result.counter = 2
    /\ lastVisit # <<>>
    /\ lastVisit[1].outcome = "type"
    /\ result.at # lastVisit[1].key

\* The schema of the declaration the n-th invocation of the visit of obj is
\* made for.
InvokedSchema(obj, n) ==
    IF IsList(obj) THEN obj.items[ChainStart(obj.items) + n].schema ELSE obj.schema

\* Where map m of R holds the raw declaration x: alone under a key (place
\* 1) or as a link of a chain.
LinkPlaces(R, m, x) ==
    {p \in UNION {{<<q, n>> : n \in 1..(IF IsList(R[m][q]) THEN Len(R[m][q].items) ELSE 1)} :
                  q \in DOMAIN R[m]} :
        (IF IsList(R[m][p[1]]) THEN R[m][p[1]].items[p[2]] ELSE R[m][p[1]]) = x}

\* The raw declarations map m of R holds.
RawLinks(R, m) ==
    UNION {IF IsList(R[m][q]) THEN {v \in Range(R[m][q].items) : IsRaw(v)}
           ELSE IF IsRaw(R[m][q]) THEN {R[m][q]} ELSE {} : q \in DOMAIN R[m]}

\* In this step no factory was invoked for a declaration of a built schema
\* and no declaration of a built schema was added to a map.
BuiltSchemasLeftAlone ==
    /\ (lastVisit' # lastVisit /\ lastVisit' # <<>>) =>
          \A n \in 1..Len(lastVisit'[1].calls) :
              ~built[InvokedSchema(lastVisit'[1].before, n)]
    /\ BuildStep =>
          \A m \in ComponentMaps : \A x \in RawLinks(reg'[cur'], m) :
              Cardinality(LinkPlaces(reg'[cur'], m, x)) > Cardinality(LinkPlaces(reg[cur'], m, x))
                  => ~built[x.schema]

ShowsNamespace(items, m, namespace, fqn_keys) ==
    LET ks == {k \in DOMAIN m : k[1] = namespace}
    IN  IF fqn_keys
        THEN DOMAIN items = ks /\ \A k \in ks : items[k] = m[k]
        ELSE DOMAIN items = {k[2] : k \in ks} /\ \A k \in ks : items[k[2]] = m[k]

\* C18 as the specification states it: the view get_globals returns holds
\* exactly the entries of the current map that lie in the namespace, with
\* their current values.
C18_ViewShowsCurrentMap ==
    [][ret' # ret =>
          ShowsNamespace(ret'[1].view.items, reg'[cur'][ret'[1].key[1]],
                         ret'[1].key[2], ret'[1].key[3])]_vars

\* C18, amended: the first get_globals call for a key since clear() or
\* construction returns the entries of the current map that lie in the
\* namespace, with their current values; every later call for the key
\* returns the view the cache holds, whatever the map has become.
C18_ViewShowsMapAtFirstCall ==
    [][ret' # ret =>
          LET key == ret'[1].key
          IN  IF key \in DOMAIN handed
              THEN /\ key \in DOMAIN reg[cur'].cache
                   /\ ret'[1].view = reg[cur'].cache[key]
              ELSE ShowsNamespace(ret'[1].view.items, reg'[cur'][key[1]], key[2], key[3])]_vars

\* A view asked for the first time after a successful build(), by local
\* names, shows a resolved component.
C18_Witness ==
    /\ ret # <<>>
    /\ Returned
    /\ ret[1].view.id = ret[1].call
    /\ ~ret[1].key[3]
    /\ "T" \in DOMAIN ret[1].view.items
    /\ IsInst(ret[1].view.items["T"])

(***************************************************************************)
(* C19: a second build()                                                   *)
(***************************************************************************)
\* build() is called right after a build() of the same registry that
\* returned, no register() or clear() in between.
SecondBuild ==
    /\ pc = "idle"
    /\ result.kind = "ok"
    /\ builds' = builds + 1
    /\ cur' = cur

\* The step is a whole build() that returns, having invoked no factory,
\* with the six maps and the built flags as they were.
BuildIsNoOp ==
    /\ pc' = "idle"
    /\ result'.kind = "ok"
    /\ lastVisit' = <<>>
    /\ \A m \in MapNames : reg'[cur'][m] = reg[cur'][m]
    /\ built' = built

EachDeclarationOnce(R) ==
    \A m \in ComponentMaps : \A x \in RawLinks(R, m) :
        Cardinality(LinkPlaces(R, m, x)) = 1

\* C20 as the specification states it: whatever register, build and clear
\* calls were made, build() calls that raised included, each declaration
\* element of a registered schema occurs at most once among the entries
\* and chain links of a map.
C20_DeclarationsLoadedOnce == EachDeclarationOnce(reg[cur])

\* C20, amended: each declaration element occurs at most once among the
\* entries and chain links of a map as long as no build() of the registry
\* has raised since its maps were last cleared.
C20_DeclarationsLoadedOnceUntilRaise ==
    cur \notin raised => EachDeclarationOnce(reg[cur])

\* A second build() since the last clear(), none having raised, has loaded
\* a declaration behind a component an earlier build() left.
C20_Witness ==
    /\ pc = "pass"
    /\ builds = 2
    /\ cur \notin raised
    /\ \E q \in DOMAIN reg[cur].types :
          LET obj == reg[cur].types[q]
          IN  /\ IsList(obj)
              /\ IsInst(obj.items[1])
              /\ built[obj.items[1].schema]
              /\ \E n \in 2..Len(obj.items) : IsRaw(obj.items[n]) /\ ~built[obj.items[n].schema]

====
